---- MODULE Spec2Model ----
(***************************************************************************)
(* Pressure-correction time stepping of flow/navier_stokes/                *)
(* pressure_correction.py: the scheme classes Chorin, IPCS and Rotational, *)
(* the shared _step and its three sub-solves.                              *)
(*                                                                         *)
(* Fields (dolfin Functions) are heap objects named by their allocation    *)
(* site; weak forms are symbolic records of their terms; the external      *)
(* Newton and Krylov solvers are modelled by their parameters and a        *)
(* nondeterministic convergence outcome.                                   *)
(***************************************************************************)
EXTENDS Integers, Sequences, FiniteSets, TLC

VARIABLES
    scheme,             \* the scheme object: [kind, time_step_method]
    pc,                 \* position of the step call
    args,               \* the arguments the caller passed to scheme.step
    frame,              \* the locals of _step
    heap,               \* the dolfin Functions: id -> [space, val]
    PETScOptions,       \* the process-wide PETSc options database
    solves,             \* the solves issued by the current call, in order
    newton_iterations,  \* iterations done by the running Newton solve
    messages,           \* the Message contexts entered by the current call
    exc,                \* the exception the call ended with
    result,             \* the (velocity, pressure) pair the call returned
    options_at_call,    \* history: PETScOptions when the current call began
    div_ui_kind         \* what the divergence of the tentative velocity is like

vars == <<scheme, pc, args, frame, heap, PETScOptions, solves,
          newton_iterations, messages, exc, result, options_at_call,
          div_ui_kind>>

----------------------------------------------------------------------------
(* Bounds of the input domains. *)

MaxScalar == 1      \* dt, rho, mu range over -1 .. MaxScalar
MaxVal == 1         \* caller field data range over 0 .. MaxVal
MaxTol == 2         \* caller tolerances range over 1 .. MaxTol (units of 1.0e-10)

Scalars == -1 .. MaxScalar
DataVals == 0 .. MaxVal
Tols == 1 .. MaxTol

(* Program constants. Tolerances are counted in units of 1.0e-10. *)
NewtonMaxIterations == 10
StepTentativeTol == 1
DirichletMaxIterations == 100
NeumannMaxIterations == 1000
CorrectionMaxIterations == 100

----------------------------------------------------------------------------
(* Field values and the heap. *)

NoVal == [k |-> "none"]
Zero == [k |-> "zero"]
Data(n) == [k |-> "data", n |-> n]
Iterate(n) == [k |-> "iterate", n |-> n]
Sol(form) == [k |-> "sol", of |-> form]

CallerIds == {"u0", "p0", "f0", "f1"}
LocalIds == {"chorin_p0", "ui", "p1", "u1"}
ObjIds == CallerIds \cup LocalIds

NoObj == [space |-> "none", val |-> NoVal]

\* dolfin Function(V): a new zero function on V
Function(h, id, space) == [h EXCEPT ![id] = [space |-> space, val |-> Zero]]

\* a coefficient of a form: the object and the value the solve reads from it
Ref(h, id) == [id |-> id, space |-> h[id].space, val |-> h[id].val]

\* the unknown of a nonlinear form
Unknown(h, id) == [id |-> id, space |-> h[id].space, val |-> [k |-> "unknown"]]

Div(r) == [op |-> "div", of |-> r]

PSpaces == {"Q1", "Q2"}

\* Python truth value of a boundary-condition argument (None or a list)
NoneBcs == [none |-> TRUE, items |-> <<>>]
List(items) == [none |-> FALSE, items |-> items]
Truthy(bcs) == ~bcs.none /\ Len(bcs.items) > 0

PBcs == {NoneBcs, List(<<>>), List(<<"p_bc">>)}
UBcs == {List(<<"u_bc">>)}

----------------------------------------------------------------------------
(* Scheme objects. *)

KnownMethods == {"forward euler", "backward euler", "crank-nicolson"}
Methods == KnownMethods \cup {"bdf2"}

\* the default of the time_step_method parameter of IPCS.__init__ and of
\* Rotational.__init__
IPCSDefaultMethod == "backward euler"
RotationalDefaultMethod == "backward euler"

\* IPCS.__init__ / Rotational.__init__ store any time_step_method
Chorin == [kind |-> "Chorin", time_step_method |-> "backward euler"]
IPCS(m) == [kind |-> "IPCS", time_step_method |-> m]
Rotational(m) == [kind |-> "Rotational", time_step_method |-> m]

SchemeObjects ==
    {Chorin} \cup {IPCS(m) : m \in Methods} \cup {Rotational(m) : m \in Methods}

----------------------------------------------------------------------------
(* Exceptions and the Message context manager around each sub-solve. *)

NoExc == [type |-> "none", at |-> "none"]
Raise(type, at) == [type |-> type, at |-> at]

\* entering `with Message(text)` announces the operation
MessageEnter(msgs, text) == Append(msgs, text)
\* leaving it on an error path notifies and lets the exception propagate
MessageExit(e) == e

----------------------------------------------------------------------------
(* The step methods of the three scheme classes: the arguments each hands  *)
(* to _step, and the Function Chorin.step creates for the pressure.        *)

NoArgs ==
    [dt |-> 0, u |-> "none", p0 |-> "none", u_bcs |-> NoneBcs, p_bcs |-> NoneBcs,
     rho |-> 0, mu |-> 0, f |-> <<"none", "none">>, verbose |-> FALSE, tol |-> 0]

NoFrame ==
    [dt |-> 0, u |-> "none", p0 |-> "none", u_bcs |-> NoneBcs, p_bcs |-> NoneBcs,
     rho |-> 0, mu |-> 0, time_step_method |-> "none", f |-> <<"none", "none">>,
     rotational_form |-> FALSE, verbose |-> FALSE, tol |-> 0,
     ui |-> "none", alpha |-> 0, p1 |-> "none", u1 |-> "none"]

StepFrame(a, p0, method, rot) ==
    [NoFrame EXCEPT !.dt = a.dt, !.u = a.u, !.p0 = p0, !.u_bcs = a.u_bcs,
                    !.p_bcs = a.p_bcs, !.rho = a.rho, !.mu = a.mu,
                    !.time_step_method = method, !.f = a.f,
                    !.rotational_form = rot, !.verbose = a.verbose, !.tol = a.tol]

ChorinP0 == "chorin_p0"
ChorinMethod == "backward euler"

\* mutant: Chorin.step passes the caller's p0 on, as IPCS.step does
ChorinStepKeepsPressure(a) == StepFrame(a, a.p0, ChorinMethod, FALSE)

ChorinStep(a) == StepFrame(a, ChorinP0, ChorinMethod, FALSE)
IPCSStep(s, a) == StepFrame(a, a.p0, s.time_step_method, FALSE)
\* mutant: Rotational.step without rotational_form=True
RotationalStepPlain(s, a) == StepFrame(a, a.p0, s.time_step_method, FALSE)

RotationalStep(s, a) == StepFrame(a, a.p0, s.time_step_method, TRUE)

SchemeStep(s, a) ==
    CASE s.kind = "Chorin" -> ChorinStep(a)
      [] s.kind = "IPCS" -> IPCSStep(s, a)
      [] s.kind = "Rotational" -> RotationalStep(s, a)

\* mutant: Chorin.step creates Function(p0), a copy of the caller's pressure
SchemeHeapCopiesPressure(s, a, h) ==
    IF s.kind = "Chorin" THEN [h EXCEPT ![ChorinP0] = h[a.p0]] ELSE h

\* Chorin.step: Function(p0.function_space()); the others allocate nothing
SchemeHeap(s, a, h) ==
    IF s.kind = "Chorin" THEN Function(h, ChorinP0, h[a.p0].space) ELSE h

----------------------------------------------------------------------------
(* _step: the precondition checks. *)

StepAsserts(fr) == fr.dt > 0 /\ fr.mu > 0

----------------------------------------------------------------------------
(* _rhs_weak and _compute_tentative_velocity. *)

RhsWeak(u, f, rho, mu, p0) ==
    [force |-> f,
     convection |-> [rho |-> rho, u |-> u],
     stress |-> [mu |-> mu, u |-> u, p |-> p0],
     pressure_boundary |-> p0,
     viscous_boundary |-> [mu |-> mu, u |-> u]]

\* mutant: ui = u[0], the tentative velocity aliases the caller's velocity
TentativeTargetAliased == "u0"

\* ui = Function(u[0].function_space()): the tentative velocity is solved
\* into a new Function
TentativeTarget == "ui"

\* mutant: the final branch is a plain else, without the assert
MethodAcceptedAny(m) == TRUE

MethodAccepted(m) == m \in KnownMethods

Alpha(m) ==
    IF m = "forward euler" THEN 1
    ELSE IF m = "backward euler" THEN 1
    ELSE 1

\* mutant: Crank-Nicolson sums the two evaluations without the factor 0.5
F1CrankNicolsonUnweighted(h, fr, ui) ==
    LET u0 == Ref(h, fr.u)
        un == Unknown(h, ui)
        p0 == Ref(h, fr.p0)
        old == RhsWeak(u0, Ref(h, fr.f[1]), fr.rho, fr.mu, p0)
        new == RhsWeak(un, Ref(h, fr.f[2]), fr.rho, fr.mu, p0)
        rhs == IF fr.time_step_method = "forward euler"
                   THEN << [weight |-> <<1, 1>>, rhs |-> old] >>
               ELSE IF fr.time_step_method = "backward euler"
                   THEN << [weight |-> <<1, 1>>, rhs |-> new] >>
               ELSE << [weight |-> <<1, 1>>, rhs |-> old],
                       [weight |-> <<1, 1>>, rhs |-> new] >>
    IN  [mass |-> [unknown |-> un, old |-> u0],
         scale |-> [dt |-> fr.dt, rho |-> fr.rho],
         rhs |-> rhs]

\* F1, scaled with dt/rho; weights are <<numerator, denominator>>
F1(h, fr, ui) ==
    LET u0 == Ref(h, fr.u)
        un == Unknown(h, ui)
        p0 == Ref(h, fr.p0)
        \* fr.f = <<f[0], f[1]>>: the force at the old and at the new time
        old == RhsWeak(u0, Ref(h, fr.f[1]), fr.rho, fr.mu, p0)
        new == RhsWeak(un, Ref(h, fr.f[2]), fr.rho, fr.mu, p0)
        rhs == IF fr.time_step_method = "forward euler"
                   THEN << [weight |-> <<1, 1>>, rhs |-> old] >>
               ELSE IF fr.time_step_method = "backward euler"
                   THEN << [weight |-> <<1, 1>>, rhs |-> new] >>
               ELSE << [weight |-> <<1, 2>>, rhs |-> old],
                       [weight |-> <<1, 2>>, rhs |-> new] >>
    IN  [mass |-> [unknown |-> un, old |-> u0],
         scale |-> [dt |-> fr.dt, rho |-> fr.rho],
         rhs |-> rhs]

\* mutant: no iteration cap is set, so the Newton solver's own default applies
NewtonParametersNoCap(tol) ==
    [nonlinear_solver |-> "newton",
     maximum_iterations |-> NewtonMaxIterations + 40,
     report |-> TRUE,
     absolute_tolerance |-> tol,
     relative_tolerance |-> 0,
     error_on_nonconvergence |-> TRUE]

NewtonParameters(tol) ==
    [nonlinear_solver |-> "newton",
     maximum_iterations |-> NewtonMaxIterations,
     report |-> TRUE,
     absolute_tolerance |-> tol,
     relative_tolerance |-> 0,
     error_on_nonconvergence |-> TRUE]

\* mutant: _step forwards the caller's tol to the Newton solve as well
TentativeTolFromCaller(fr) == fr.tol

\* the tol _step passes to _compute_tentative_velocity
TentativeTol(fr) == StepTentativeTol

\* ui.assign(u[0]): the initial guess is a copy of the values of u[0]
Assign(h, dst, src) == [h EXCEPT ![dst].val = h[src].val]

TentativeSolve(h, fr, ui) ==
    [stage |-> "tentative",
     status |-> "running",
     target |-> ui,
     form |-> F1(h, fr, ui),
     bcs |-> fr.u_bcs,
     params |-> NewtonParameters(TentativeTol(fr))]

----------------------------------------------------------------------------
(* _compute_pressure. *)

PressureTarget == "p1"

\* mutant: the rotational term is never subtracted from L2
PressureFormNoRotation(p0, alpha, rho, dt, mu, div_ui, rotational_form) ==
    [a |-> "dot(grad(p), grad(q))",
     L |-> [divergence |-> [alpha |-> alpha, rho |-> rho, dt |-> dt, div_ui |-> div_ui],
            p0_gradient |-> p0,
            rotational |-> << >>]]

\* a2 == L2: the Poisson problem for the pressure
PressureForm(p0, alpha, rho, dt, mu, div_ui, rotational_form) ==
    [a |-> "dot(grad(p), grad(q))",
     L |-> [divergence |-> [alpha |-> alpha, rho |-> rho, dt |-> dt, div_ui |-> div_ui],
            p0_gradient |-> p0,
            rotational |-> IF rotational_form
                               THEN << [mu |-> mu, div_ui |-> div_ui] >>
                               ELSE << >>]]

\* The divergence of the tentative velocity is zero, a non-zero constant on
\* every cell (its gradient is zero), or varying within cells.
DivKinds == {"zero", "constant", "varying"}

\* whether mu * dot(grad(div_ui), grad(q)) * dx assembles to the zero vector
RotationalTermVanishes(mu, kind) == mu = 0 \/ kind \in {"zero", "constant"}

\* L2 as it is assembled: a term that assembles to zero adds nothing
AssembledL2(L, kind) ==
    IF L.rotational # << >> /\ RotationalTermVanishes(L.rotational[1].mu, kind)
    THEN [L EXCEPT !.rotational = << >>]
    ELSE L

\* mutant: a Krylov solver that returns its last iterate on non-convergence
KrylovParametersLenient(tol, maxit, verbose) ==
    [relative_tolerance |-> tol,
     absolute_tolerance |-> 0,
     maximum_iterations |-> maxit,
     monitor_convergence |-> verbose,
     error_on_nonconvergence |-> FALSE]

KrylovParameters(tol, maxit, verbose) ==
    [relative_tolerance |-> tol,
     absolute_tolerance |-> 0,
     maximum_iterations |-> maxit,
     monitor_convergence |-> verbose,
     error_on_nonconvergence |-> TRUE]

\* mutant: `if p_bcs is not None:`, an empty list takes the Dirichlet path
PressurePathNotNone(p_bcs) == IF ~p_bcs.none THEN "dirichlet" ELSE "neumann"

\* the branch `if p_bcs:` takes
PressurePath(p_bcs) == IF Truthy(p_bcs) THEN "dirichlet" ELSE "neumann"

Assemble(form) == [assembled |-> form]

\* mutant: b -= b.inner(evec) * evec, the null-space component is removed
NeumannRhsSanitized(L) == [assembled |-> L, removed |-> "constant null space"]

\* the right-hand side vector handed to solver.solve on the pure Neumann path
NeumannRhs(L) == Assemble(L)

RelaxTypeCoarse == <<"pc_hypre_boomeramg_relax_type_coarse", "jacobi">>

\* PETScOptions.set(key, value) on the process-wide options database
PETScOptionsSet(opts, kv) == {o \in opts : o[1] # kv[1]} \cup {kv}

\* the options database after _compute_pressure has set up its solver
PressureOptions(opts, p_bcs) ==
    IF PressurePath(p_bcs) = "dirichlet" THEN opts
    ELSE PETScOptionsSet(opts, RelaxTypeCoarse)

PressureSolve(form, target, p_bcs, tol, verbose, opts) ==
    IF PressurePath(p_bcs) = "dirichlet"
    THEN [stage |-> "pressure", status |-> "running", target |-> target,
          path |-> "dirichlet", form |-> form, rhs |-> Assemble(form.L),
          bcs |-> p_bcs, linear_solver |-> "iterative", symmetric |-> TRUE,
          preconditioner |-> "hypre_amg",
          params |-> KrylovParameters(tol, DirichletMaxIterations, verbose),
          options |-> opts]
    ELSE [stage |-> "pressure", status |-> "running", target |-> target,
          path |-> "neumann", form |-> form, rhs |-> NeumannRhs(form.L),
          bcs |-> NoneBcs, linear_solver |-> "cg", symmetric |-> TRUE,
          preconditioner |-> "hypre_amg",
          params |-> KrylovParameters(tol, NeumannMaxIterations, verbose),
          options |-> opts]

----------------------------------------------------------------------------
(* _compute_velocity_correction. *)

CorrectionTarget == "u1"

\* mutant: mu * div(ui) is added to phi whatever rotational_form is
CorrectionFormAlwaysRotational(ui, p1, p0, mu, rho, dt, rotational_form) ==
    [a |-> "inner(u2, v)",
     L |-> [tentative |-> ui,
            scale |-> [dt |-> dt, rho |-> rho],
            phi |-> [plus |-> p1,
                     minus |-> p0,
                     rotational |-> << [mu |-> mu, div_ui |-> Div(ui)] >>]]]

\* a3 == L3: the mass-matrix problem for the corrected velocity
CorrectionForm(ui, p1, p0, mu, rho, dt, rotational_form) ==
    [a |-> "inner(u2, v)",
     L |-> [tentative |-> ui,
            scale |-> [dt |-> dt, rho |-> rho],
            phi |-> [plus |-> p1,
                     minus |-> p0,
                     rotational |-> IF rotational_form
                                        THEN << [mu |-> mu, div_ui |-> Div(ui)] >>
                                        ELSE << >>]]]

CorrectionSolve(form, target, u_bcs, tol, verbose, opts) ==
    [stage |-> "correction", status |-> "running", target |-> target,
     form |-> form, bcs |-> u_bcs, linear_solver |-> "iterative",
     symmetric |-> TRUE, preconditioner |-> "hypre_amg",
     params |-> KrylovParameters(tol, CorrectionMaxIterations, verbose),
     options |-> opts]

----------------------------------------------------------------------------
(* The state machine of one scheme object and its caller. *)

NoResult == << >>

\* the fields the caller owns: the velocity history u, the pressure p0 and
\* the forces f = <<f[0], f[1]>>
CallerHeap(pv, ps) ==
    [id \in ObjIds |->
        CASE id = "u0" -> [space |-> "V", val |-> Data(0)]
          [] id = "p0" -> [space |-> ps, val |-> Data(pv)]
          [] id = "f0" -> [space |-> "V", val |-> Data(0)]
          [] id = "f1" -> [space |-> "V", val |-> Data(0)]
          [] OTHER -> NoObj]

Init ==
    /\ scheme \in SchemeObjects
    /\ pc = "idle"
    /\ args = NoArgs
    /\ frame = NoFrame
    /\ \E pv \in DataVals, ps \in PSpaces : heap = CallerHeap(pv, ps)
    /\ PETScOptions = {}
    /\ solves = << >>
    /\ newton_iterations = 0
    /\ messages = << >>
    /\ exc = NoExc
    /\ result = NoResult
    /\ options_at_call = {}
    /\ div_ui_kind = "none"

EndSolve(s, i, status) == [s EXCEPT ![i].status = status]

\* the value a finished solve leaves in its target
Solution(solve) == Sol([form |-> solve.form, bcs |-> solve.bcs])

\* an exception leaves the Message block it was raised in and ends the call
Fail(h, s, e) ==
    /\ pc' = "error"
    /\ exc' = MessageExit(e)
    /\ heap' = h
    /\ solves' = s
    /\ result' = NoResult
    /\ UNCHANGED <<scheme, args, frame, PETScOptions, newton_iterations, messages,
                   options_at_call, div_ui_kind>>

\* scheme.step(dt, u, p0, u_bcs, p_bcs, rho, mu, f, verbose, tol), up to the
\* start of the Newton solve in _compute_tentative_velocity
Call ==
    /\ pc = "idle"
    /\ \E dt \in Scalars, rho \in Scalars, mu \in Scalars,
          pb \in PBcs, ub \in UBcs, tol \in Tols, verbose \in BOOLEAN :
        LET a == [dt |-> dt, u |-> "u0", p0 |-> "p0", u_bcs |-> ub, p_bcs |-> pb,
                  rho |-> rho, mu |-> mu, f |-> <<"f0", "f1">>,
                  verbose |-> verbose, tol |-> tol]
            h0 == heap
            fr == SchemeStep(scheme, a)
            h1 == SchemeHeap(scheme, a, h0)
            ui == TentativeTarget
            h2 == Function(h1, ui, h1[fr.u].space)
            h3 == Assign(h2, ui, fr.u)
        IN  /\ args' = a
            /\ frame' = fr
            /\ newton_iterations' = 0
            /\ result' = NoResult
            /\ options_at_call' = PETScOptions
            /\ div_ui_kind' = "none"
            /\ UNCHANGED <<scheme, PETScOptions>>
            /\ IF ~StepAsserts(fr)
               THEN /\ pc' = "error"
                    /\ exc' = Raise("AssertionError", "_step")
                    /\ heap' = h1
                    /\ solves' = << >>
                    /\ messages' = << >>
               ELSE IF ~MethodAccepted(fr.time_step_method)
               THEN /\ pc' = "error"
                    /\ exc' = MessageExit(Raise("AssertionError", "tentative"))
                    /\ heap' = h2
                    /\ solves' = << >>
                    /\ messages' = MessageEnter(<< >>, "Computing tentative velocity")
               ELSE /\ pc' = "newton"
                    /\ exc' = NoExc
                    /\ heap' = h3
                    /\ solves' = << TentativeSolve(h2, fr, ui) >>
                    /\ messages' = MessageEnter(<< >>, "Computing tentative velocity")

\* mutant: the divergence of the old velocity u[0] is handed over instead
PressureDivArgStale(h, fr) == Div(Ref(h, fr.u))

\* the div_ui argument _step hands to _compute_pressure
PressureDivArg(h, fr) == Div(Ref(h, fr.ui))

\* _compute_tentative_velocity has returned (ui, alpha): _compute_pressure,
\* up to the start of its linear solve
BeginPressure(h, s) ==
    LET fr == [frame EXCEPT !.ui = s[1].target,
                            !.alpha = Alpha(frame.time_step_method)]
        p1 == PressureTarget
        h1 == Function(h, p1, h[fr.p0].space)
        form == PressureForm(Ref(h1, fr.p0), fr.alpha, fr.rho, fr.dt, fr.mu,
                             PressureDivArg(h1, fr), fr.rotational_form)
        opts == PressureOptions(PETScOptions, fr.p_bcs)
    IN  /\ pc' = "pressure"
        /\ frame' = fr
        /\ heap' = h1
        /\ PETScOptions' = opts
        /\ solves' = Append(s, PressureSolve(form, p1, fr.p_bcs, fr.tol,
                                             fr.verbose, opts))
        /\ messages' = MessageEnter(messages, "Computing pressure")
        /\ newton_iterations' = 0
        /\ div_ui_kind' \in DivKinds
        /\ UNCHANGED <<scheme, args, exc, result, options_at_call>>

\* _compute_pressure has returned p1: _compute_velocity_correction, up to
\* the start of its linear solve
BeginCorrection(h, s) ==
    LET fr == [frame EXCEPT !.p1 = s[2].target]
        u1 == CorrectionTarget
        h1 == Function(h, u1, h[fr.u].space)
        form == CorrectionForm(Ref(h1, fr.ui), Ref(h1, fr.p1), Ref(h1, fr.p0),
                               fr.mu, fr.rho, fr.dt, fr.rotational_form)
    IN  /\ pc' = "correction"
        /\ frame' = fr
        /\ heap' = h1
        /\ solves' = Append(s, CorrectionSolve(form, u1, fr.u_bcs, fr.tol,
                                               fr.verbose, PETScOptions))
        /\ messages' = MessageEnter(messages, "Computing velocity correction")
        /\ UNCHANGED <<scheme, args, PETScOptions, newton_iterations, exc, result,
                       options_at_call, div_ui_kind>>

\* _compute_velocity_correction has returned u1: return u1, p1
ReturnPair(h, s) ==
    LET fr == [frame EXCEPT !.u1 = s[3].target]
    IN  /\ pc' = "done"
        /\ frame' = fr
        /\ heap' = h
        /\ solves' = s
        /\ result' = <<fr.u1, fr.p1>>
        /\ UNCHANGED <<scheme, args, PETScOptions, newton_iterations, messages, exc,
                       options_at_call, div_ui_kind>>

\* one Newton iteration: the residual is not below the tolerance yet
NewtonIterate ==
    /\ pc = "newton"
    /\ newton_iterations < solves[1].params.maximum_iterations
    /\ newton_iterations' = newton_iterations + 1
    /\ heap' = [heap EXCEPT ![solves[1].target].val = Iterate(newton_iterations + 1)]
    /\ UNCHANGED <<scheme, pc, args, frame, PETScOptions, solves, messages, exc,
                   result, options_at_call, div_ui_kind>>

\* the residual is below the absolute tolerance
NewtonConverged ==
    /\ pc = "newton"
    /\ BeginPressure([heap EXCEPT ![solves[1].target].val = Solution(solves[1])],
                     EndSolve(solves, 1, "returned"))

\* the iteration cap is reached and the residual is not below the tolerance
NewtonDiverged ==
    /\ pc = "newton"
    /\ newton_iterations = solves[1].params.maximum_iterations
    /\ IF solves[1].params.error_on_nonconvergence
       THEN Fail(heap, EndSolve(solves, 1, "diverged"), Raise("RuntimeError", "tentative"))
       ELSE BeginPressure(heap, EndSolve(solves, 1, "diverged"))

PressureConverged ==
    /\ pc = "pressure"
    /\ BeginCorrection([heap EXCEPT ![solves[2].target].val = Solution(solves[2])],
                       EndSolve(solves, 2, "returned"))

PressureDiverged ==
    /\ pc = "pressure"
    /\ IF solves[2].params.error_on_nonconvergence
       THEN Fail(heap, EndSolve(solves, 2, "diverged"), Raise("RuntimeError", "pressure"))
       ELSE BeginCorrection(heap, EndSolve(solves, 2, "diverged"))

CorrectionConverged ==
    /\ pc = "correction"
    /\ ReturnPair([heap EXCEPT ![solves[3].target].val = Solution(solves[3])],
                  EndSolve(solves, 3, "returned"))

CorrectionDiverged ==
    /\ pc = "correction"
    /\ IF solves[3].params.error_on_nonconvergence
       THEN Fail(heap, EndSolve(solves, 3, "diverged"), Raise("RuntimeError", "correction"))
       ELSE ReturnPair(heap, EndSolve(solves, 3, "diverged"))

\* the caller takes the result or the exception; the call's locals are gone
Return ==
    /\ pc \in {"done", "error"}
    /\ pc' = "idle"
    /\ args' = NoArgs
    /\ frame' = NoFrame
    /\ heap' = [id \in ObjIds |-> IF id \in CallerIds THEN heap[id] ELSE NoObj]
    /\ solves' = << >>
    /\ newton_iterations' = 0
    /\ messages' = << >>
    /\ exc' = NoExc
    /\ result' = NoResult
    /\ div_ui_kind' = "none"
    /\ UNCHANGED <<scheme, PETScOptions, options_at_call>>

Next ==
    \/ Call
    \/ NewtonIterate
    \/ NewtonConverged
    \/ NewtonDiverged
    \/ PressureConverged
    \/ PressureDiverged
    \/ CorrectionConverged
    \/ CorrectionDiverged
    \/ Return

Spec == Init /\ [][Next]_vars

----------------------------------------------------------------------------
(* Properties. *)

StageOrder == <<"tentative", "pressure", "correction">>

\* C1: in every time step the three sub-solves run in the order tentative
\* velocity, pressure, velocity correction, each at most once and never
\* interleaved: a solve starts only after the one before it has returned;
\* the pressure solve receives the divergence of the tentative velocity that
\* was returned and its alpha; the velocity correction receives that
\* tentative velocity and the pressure that was returned.
C1_StrictSequence ==
    LET n == Len(solves)
    IN  /\ n <= 3
        /\ \A i \in 1 .. n : solves[i].stage = StageOrder[i]
        /\ \A i \in 1 .. n : i < n => solves[i].status = "returned"
        /\ pc = "newton" => n = 1 /\ solves[1].status = "running"
        /\ pc = "pressure" => n = 2 /\ solves[2].status = "running"
        /\ pc = "correction" => n = 3 /\ solves[3].status = "running"
        /\ pc = "done" => n = 3 /\ solves[3].status = "returned"
        /\ n >= 2 =>
            /\ heap[solves[1].target].val = Solution(solves[1])
            /\ solves[2].form.L.divergence.div_ui = Div(Ref(heap, solves[1].target))
            /\ frame.alpha = Alpha(frame.time_step_method)
            /\ solves[2].form.L.divergence.alpha = frame.alpha
        /\ n >= 3 =>
            /\ heap[solves[2].target].val = Solution(solves[2])
            /\ solves[3].form.L.tentative = Ref(heap, solves[1].target)
            /\ solves[3].form.L.phi.plus = Ref(heap, solves[2].target)

\* C1 witness: a step that ran all three solves and returned
C1_Witness ==
    /\ pc = "done"
    /\ Len(solves) = 3
    /\ result = <<solves[3].target, solves[2].target>>

\* C2: a sub-solve that does not converge ends the step in an error at that
\* point: it is the last solve of the step, no solve is issued twice, and no
\* (velocity, pressure) pair is returned.
C2_FailureAborts ==
    /\ \A i \in 1 .. Len(solves) :
          solves[i].status = "diverged" =>
              /\ i = Len(solves)
              /\ pc = "error"
              /\ exc = Raise("RuntimeError", solves[i].stage)
              /\ result = NoResult
    /\ \A i \in 1 .. Len(solves) : \A j \in 1 .. Len(solves) :
          solves[i].stage = solves[j].stage => i = j
    /\ pc = "error" => result = NoResult

\* C2 witness: the pure-Neumann pressure solve failed to converge
C2_Witness ==
    /\ pc = "error"
    /\ Len(solves) = 2
    /\ solves[2].status = "diverged"
    /\ solves[2].path = "neumann"

\* C3 (as claimed): a step called with a non-positive rho, mu or dt fails
\* before any sub-solve is attempted.
C3_NonPositiveRejected ==
    (pc # "idle" /\ (args.rho <= 0 \/ args.mu <= 0 \/ args.dt <= 0)) =>
        (pc = "error" /\ exc.type = "AssertionError" /\ solves = << >>)

\* C4: a time step never changes caller-owned state: in every step of the
\* model, inside a call that returns or aborts, the fields u, p0 and f keep
\* their values, and the returned velocity and pressure are Functions
\* created by the call, distinct from u[0], p0, the pressure handed to _step
\* and the tentative velocity.
C4_CallerStateUntouched ==
    /\ [](pc = "done" =>
            /\ Len(result) = 2
            /\ \A i \in 1 .. 2 :
                  /\ result[i] \in LocalIds
                  /\ result[i] \notin {args.u, args.p0, frame.p0, frame.ui}
                  /\ heap[result[i]].val.k = "sol"
            /\ result[1] # result[2])
    /\ [][\A id \in CallerIds : heap'[id] = heap[id]]_vars

\* C4 witness: a step has returned a pair of solved fields
C4_Witness ==
    /\ pc = "done"
    /\ Len(result) = 2
    /\ heap[result[1]].val.k = "sol"
    /\ heap["u0"].val = Data(0)

\* C5 (as claimed): every piece of state outside a call's arguments and
\* results, the process-wide solver options included, is the same after a
\* call as before it (stated for calls with positive dt, rho and mu).
C5_NoPersistentState ==
    (pc \in {"done", "error"} /\ args.dt > 0 /\ args.rho > 0 /\ args.mu > 0) =>
        PETScOptions = options_at_call

\* C6: Chorin.step builds the tentative-velocity residual with a zero
\* pressure field on p0's function space whatever p0 holds, always with
\* backward Euler, and with rotational form off.
C6_ChorinIgnoresPressure ==
    (scheme.kind = "Chorin" /\ Len(solves) >= 1) =>
        LET F == solves[1].form
            p == F.rhs[1].rhs.stress.p
        IN  /\ p.val = Zero
            /\ p.space = heap[args.p0].space
            /\ p.id # args.p0
            /\ F.rhs[1].rhs.pressure_boundary = p
            /\ frame.time_step_method = "backward euler"
            /\ Len(F.rhs) = 1
            /\ F.rhs[1].weight = <<1, 1>>
            /\ F.rhs[1].rhs.convection.u = F.mass.unknown
            /\ F.rhs[1].rhs.force.id = args.f[2]
            /\ frame.rotational_form = FALSE
            /\ Len(solves) >= 2 => solves[2].form.L.rotational = << >>
            /\ Len(solves) >= 3 => solves[3].form.L.phi.rotational = << >>

\* C6 witness: a Chorin step ran to its end with a non-zero p0 from the caller
C6_Witness ==
    /\ scheme.kind = "Chorin"
    /\ pc = "done"
    /\ heap[args.p0].val = Data(1)

\* C7: Rotational is IPCS plus the rotational correction and nothing else:
\* both use the supplied p0 and the scheme's time_step_method (default
\* backward Euler), a Rotational step issues the tentative-velocity solve an
\* IPCS step issues for the same inputs, and Rotational passes
\* rotational_form=True to both the pressure solve and the velocity
\* correction where IPCS passes False to both.
C7_RotationalIsIPCSPlusRotation ==
    /\ IPCSDefaultMethod = "backward euler"
    /\ RotationalDefaultMethod = "backward euler"
    /\ (scheme.kind \in {"IPCS", "Rotational"} /\ pc # "idle") =>
        LET rot == scheme.kind = "Rotational"
            ipcs == IPCSStep(IPCS(scheme.time_step_method), args)
            h == Function(heap, "ui", heap[args.u].space)
        IN  /\ frame.p0 = args.p0
            /\ frame.time_step_method = scheme.time_step_method
            /\ frame.rotational_form = rot
            /\ [frame EXCEPT !.rotational_form = FALSE, !.ui = "none",
                             !.alpha = 0, !.p1 = "none", !.u1 = "none"] = ipcs
            /\ Len(solves) >= 1 =>
                  [solves[1] EXCEPT !.status = "running"] = TentativeSolve(h, ipcs, "ui")
            /\ Len(solves) >= 2 =>
                  /\ solves[2].form.L.p0_gradient.id = args.p0
                  /\ solves[2].form.L.rotational =
                        IF rot THEN << [mu |-> args.mu,
                                        div_ui |-> Div(Ref(heap, "ui"))] >>
                        ELSE << >>
            /\ Len(solves) >= 3 =>
                  /\ solves[3].form.L.phi.minus.id = args.p0
                  /\ solves[3].form.L.phi.rotational =
                        IF rot THEN << [mu |-> args.mu,
                                        div_ui |-> Div(Ref(heap, "ui"))] >>
                        ELSE << >>

\* C7 witness: a Rotational step ran all three solves
C7_Witness ==
    /\ scheme.kind = "Rotational"
    /\ pc = "done"
    /\ solves[2].form.L.rotational # << >>
    /\ solves[3].form.L.phi.rotational # << >>

\* C8: the pressure solve takes the Dirichlet path (symmetric iterative
\* solver with the supplied conditions, at most 100 iterations) exactly when
\* pressure Dirichlet conditions are supplied and non-empty, and the pure-
\* Neumann path (conjugate gradients, at most 1000 iterations) otherwise; on
\* both paths the absolute tolerance is 0, the relative tolerance is the
\* step's tol and non-convergence is an error.
C8_PressurePath ==
    Len(solves) >= 2 =>
        LET s == solves[2]
            supplied == ~args.p_bcs.none /\ args.p_bcs.items # << >>
        IN  /\ supplied =>
                /\ s.path = "dirichlet"
                /\ s.linear_solver = "iterative"
                /\ s.symmetric
                /\ s.bcs = args.p_bcs
                /\ s.params.maximum_iterations = 100
            /\ ~supplied =>
                /\ s.path = "neumann"
                /\ s.linear_solver = "cg"
                /\ s.bcs = NoneBcs
                /\ s.params.maximum_iterations = 1000
            /\ s.params.absolute_tolerance = 0
            /\ s.params.relative_tolerance = args.tol
            /\ s.params.error_on_nonconvergence

\* C8 witness: an empty list of pressure conditions took the Neumann path
C8_Witness ==
    /\ Len(solves) >= 2
    /\ args.p_bcs = List(<< >>)
    /\ solves[2].path = "neumann"
    /\ args.tol = 2

\* C9: on the pure-Neumann path the right-hand side handed to the linear
\* solver is exactly the assembled linear form L2, nothing removed or added;
\* an inconsistent right-hand side can then only end the solve by
\* non-convergence, which is an error.
C9_NeumannRhsUntouched ==
    (Len(solves) >= 2 /\ solves[2].path = "neumann") =>
        /\ solves[2].rhs = [assembled |-> solves[2].form.L]
        /\ solves[2].status = "diverged" => pc = "error"

\* C9 witness: a pure-Neumann pressure solve was handed its right-hand side
C9_Witness ==
    /\ pc = "pressure"
    /\ solves[2].path = "neumann"
    /\ solves[2].rhs = Assemble(solves[2].form.L)

\* C10: the Newton iteration of the tentative-velocity solve terminates: it
\* is capped at 10 iterations with relative tolerance 0 and a positive
\* absolute tolerance, every step inside it is one more iteration, it ends
\* either converged (the pressure solve starts) or in a fatal error at the
\* cap, and after a failure nothing is re-run: the only step left is the
\* caller receiving the exception.
C10_NewtonTerminates ==
    /\ [](/\ newton_iterations <= 10
          /\ Len(solves) >= 1 =>
                /\ solves[1].params.maximum_iterations = 10
                /\ solves[1].params.relative_tolerance = 0
                /\ solves[1].params.absolute_tolerance > 0
                /\ solves[1].params.error_on_nonconvergence)
    /\ [][pc = "newton" =>
            \/ /\ pc' = "newton"
               /\ newton_iterations' = newton_iterations + 1
            \/ /\ pc' = "pressure"
               /\ solves'[1].status = "returned"
               /\ heap'[solves[1].target].val = Solution(solves[1])
            \/ /\ pc' = "error"
               /\ newton_iterations = 10
               /\ solves'[1].status = "diverged"
               /\ exc' = Raise("RuntimeError", "tentative")
               /\ Len(solves') = 1]_vars
    /\ [][pc = "error" => pc' = "idle"]_vars

\* C10 witness: the Newton solve failed at its iteration cap
C10_Witness ==
    /\ pc = "error"
    /\ exc = Raise("RuntimeError", "tentative")
    /\ newton_iterations = 10
    /\ Len(solves) = 1

\* the linear form of the non-rotational pressure solve for the inputs of
\* the pressure solve that was issued
PlainL2 ==
    LET L == solves[2].form.L
    IN  PressureForm(L.p0_gradient, L.divergence.alpha, L.divergence.rho,
                     L.divergence.dt, frame.mu, L.divergence.div_ui, FALSE).L

\* the pressure problem that was issued differs, as assembled, from the
\* non-rotational one for the same inputs, and so does its solution
PressureAltered ==
    AssembledL2(solves[2].form.L, div_ui_kind) # AssembledL2(PlainL2, div_ui_kind)

\* C11 (as claimed): the rotational form alters the pressure output when
\* mu != 0 and the tentative velocity has non-zero divergence, and leaves it
\* equal to the non-rotational output when mu == 0 (stated for rho > 0).
C11_RotationalAltersPressure ==
    (frame.rotational_form /\ Len(solves) >= 2 /\ args.rho > 0) =>
        /\ (args.mu # 0 /\ div_ui_kind # "zero") => PressureAltered
        /\ args.mu = 0 => ~PressureAltered

\* C11 (amended): the rotational form changes the pressure problem only by
\* the term mu * dot(grad(div_ui), grad(q)) * dx: the pressure output differs
\* from the non-rotational output exactly when rotational form is on and
\* that term does not assemble to zero, which needs mu != 0 and a divergence
\* with non-zero gradient; a non-zero divergence that is constant on every
\* cell leaves the output unchanged. The term is zero for mu == 0 in
\* _compute_pressure, and no step reaches the pressure solve with mu <= 0.
C11_RotationalTermDecides ==
    /\ Len(solves) >= 2 =>
          /\ args.mu > 0
          /\ PressureAltered <=> (frame.rotational_form /\ div_ui_kind = "varying")
    /\ \A kind \in DivKinds : \A rot \in BOOLEAN :
          LET p == Ref(heap, "p0")
              d == Div(Ref(heap, "u0"))
          IN  AssembledL2(PressureForm(p, 1, 1, 1, 0, d, rot).L, kind)
                  = PressureForm(p, 1, 1, 1, 0, d, FALSE).L

\* C11 witness: a rotational pressure solve whose output is altered
C11_Witness ==
    /\ frame.rotational_form
    /\ pc = "done"
    /\ div_ui_kind = "varying"
    /\ PressureAltered

\* C12: the tentative-velocity residual is selected by the time method:
\* forward Euler evaluates the momentum right-hand side only at the old
\* velocity u[0] with the old force f[0], backward Euler only at the unknown
\* velocity with the new force f[1], Crank-Nicolson takes one half of each of
\* these two evaluations; alpha is 1.0 in every case and is the value the
\* pressure solve uses.
C12_ResidualByMethod ==
    Len(solves) >= 1 =>
        LET F == solves[1].form
            m == frame.time_step_method
            AtOld(r) == /\ r.convection.u = F.mass.old
                        /\ r.stress.u = F.mass.old
                        /\ r.viscous_boundary.u = F.mass.old
                        /\ r.force = Ref(heap, args.f[1])
            AtNew(r) == /\ r.convection.u = F.mass.unknown
                        /\ r.stress.u = F.mass.unknown
                        /\ r.viscous_boundary.u = F.mass.unknown
                        /\ r.force = Ref(heap, args.f[2])
        IN  /\ F.mass.old = Ref(heap, args.u)
            /\ F.mass.unknown.id = solves[1].target
            /\ F.mass.unknown.val.k = "unknown"
            /\ m \in {"forward euler", "backward euler", "crank-nicolson"}
            /\ m = "forward euler" =>
                  /\ Len(F.rhs) = 1
                  /\ F.rhs[1].weight = <<1, 1>>
                  /\ AtOld(F.rhs[1].rhs)
            /\ m = "backward euler" =>
                  /\ Len(F.rhs) = 1
                  /\ F.rhs[1].weight = <<1, 1>>
                  /\ AtNew(F.rhs[1].rhs)
            /\ m = "crank-nicolson" =>
                  /\ Len(F.rhs) = 2
                  /\ F.rhs[1].weight = <<1, 2>>
                  /\ F.rhs[2].weight = <<1, 2>>
                  /\ AtOld(F.rhs[1].rhs)
                  /\ AtNew(F.rhs[2].rhs)
            /\ Len(solves) >= 2 =>
                  /\ frame.alpha = 1
                  /\ solves[2].form.L.divergence.alpha = 1

\* C12 witness: a Crank-Nicolson step whose pressure solve was issued
C12_Witness ==
    /\ Len(solves) >= 2
    /\ frame.time_step_method = "crank-nicolson"
    /\ Len(solves[1].form.rhs) = 2

\* C13: the velocity correction projects the tentative velocity with phi
\* equal to the pressure the pressure solve returned minus the old pressure
\* that the same step handed to its tentative-velocity and pressure solves;
\* mu * div(tentative velocity) is added to phi exactly when rotational form
\* is on, and the flag is the one the pressure solve of the step used.
C13_CorrectionPhi ==
    Len(solves) >= 3 =>
        LET L == solves[3].form.L
            phi == L.phi
        IN  /\ L.tentative = Ref(heap, solves[1].target)
            /\ heap[solves[1].target].val = Solution(solves[1])
            /\ L.scale = [dt |-> args.dt, rho |-> args.rho]
            /\ phi.plus = Ref(heap, solves[2].target)
            /\ heap[solves[2].target].val = Solution(solves[2])
            /\ phi.minus.id = frame.p0
            /\ phi.minus = solves[2].form.L.p0_gradient
            /\ \A i \in 1 .. Len(solves[1].form.rhs) :
                  phi.minus = solves[1].form.rhs[i].rhs.stress.p
            /\ frame.rotational_form =>
                  phi.rotational = << [mu |-> args.mu, div_ui |-> Div(L.tentative)] >>
            /\ ~frame.rotational_form => phi.rotational = << >>
            /\ (phi.rotational # << >>) <=> (solves[2].form.L.rotational # << >>)

\* C13 witness: a velocity correction was issued without rotational form
\* after a pressure solve that took a non-zero old pressure
C13_Witness ==
    /\ Len(solves) = 3
    /\ ~frame.rotational_form
    /\ solves[3].form.L.phi.minus.val = Data(1)

\* the velocity and the pressure a converged step of the current scheme
\* returns for the current arguments when the values of the caller's p0 are
\* replaced by other values on the same function space
RerunWithPressure(val) ==
    LET h0 == [heap EXCEPT ![args.p0].val = val]
        fr0 == SchemeStep(scheme, args)
        h1 == SchemeHeap(scheme, args, h0)
        h2 == Function(h1, "ui", h1[fr0.u].space)
        ts == TentativeSolve(h2, fr0, "ui")
        h3 == [h2 EXCEPT !["ui"].val = Solution(ts)]
        fr1 == [fr0 EXCEPT !.ui = "ui", !.alpha = Alpha(fr0.time_step_method)]
        h4 == Function(h3, "p1", h3[fr1.p0].space)
        pf == PressureForm(Ref(h4, fr1.p0), fr1.alpha, fr1.rho, fr1.dt, fr1.mu,
                           PressureDivArg(h4, fr1), fr1.rotational_form)
        ps == PressureSolve(pf, "p1", fr1.p_bcs, fr1.tol, fr1.verbose, {})
        h5 == [h4 EXCEPT !["p1"].val = Solution(ps)]
        h6 == Function(h5, "u1", h5[fr1.u].space)
        cf == CorrectionForm(Ref(h6, "ui"), Ref(h6, "p1"), Ref(h6, fr1.p0),
                             fr1.mu, fr1.rho, fr1.dt, fr1.rotational_form)
        cs == CorrectionSolve(cf, "u1", fr1.u_bcs, fr1.tol, fr1.verbose, {})
    IN  [velocity |-> Solution(cs), pressure |-> Solution(ps)]

\* C14: in a Chorin step the zero pressure field replaces the caller's p0 in
\* all three sub-steps: the pressure solve carries the gradient of the zero
\* field and the velocity correction subtracts the zero field, so the
\* velocity and pressure returned are those of a call that differs only in
\* the values of p0.
C14_ChorinResultIgnoresPressure ==
    scheme.kind = "Chorin" =>
        LET zero == [id |-> "chorin_p0", space |-> heap[args.p0].space, val |-> Zero]
        IN  /\ Len(solves) >= 1 =>
                \A i \in 1 .. Len(solves[1].form.rhs) :
                    /\ solves[1].form.rhs[i].rhs.stress.p = zero
                    /\ solves[1].form.rhs[i].rhs.pressure_boundary = zero
            /\ Len(solves) >= 2 => solves[2].form.L.p0_gradient = zero
            /\ Len(solves) >= 3 => solves[3].form.L.phi.minus = zero
            /\ pc = "done" =>
                \A n \in DataVals :
                    /\ heap[result[1]].val = RerunWithPressure(Data(n)).velocity
                    /\ heap[result[2]].val = RerunWithPressure(Data(n)).pressure

\* C14 witness: a Chorin step returned its pair for a non-zero p0
C14_Witness ==
    /\ scheme.kind = "Chorin"
    /\ pc = "done"
    /\ Len(solves) = 3
    /\ heap[args.p0].val = Data(1)
    /\ heap[result[2]].val = RerunWithPressure(Data(0)).pressure

\* the tentative-velocity solve the current scheme issues for the current
\* arguments when the caller's tol is replaced by t
TentativeSolveWithTol(t) ==
    LET a == [args EXCEPT !.tol = t]
        fr == SchemeStep(scheme, a)
        h1 == SchemeHeap(scheme, a, heap)
        h2 == Function(h1, "ui", h1[fr.u].space)
    IN  TentativeSolve(h2, fr, "ui")

\* C15: the caller's tol is the relative tolerance of the pressure solve and
\* of the velocity correction and nothing else; the Newton solve of the
\* tentative velocity runs with absolute tolerance 1.0e-10 (one unit), and
\* the tentative solve issued is the one issued for every other tol.
C15_TolReachesLinearSolvesOnly ==
    /\ Len(solves) >= 1 =>
        /\ solves[1].stage = "tentative"
        /\ solves[1].params.absolute_tolerance = 1
        /\ solves[1].params.relative_tolerance = 0
        /\ \A t \in Tols :
            [solves[1] EXCEPT !.status = "running"] = TentativeSolveWithTol(t)
    /\ Len(solves) >= 2 =>
        /\ solves[2].stage = "pressure"
        /\ solves[2].params.relative_tolerance = args.tol
    /\ Len(solves) >= 3 =>
        /\ solves[3].stage = "correction"
        /\ solves[3].params.relative_tolerance = args.tol

\* C15 witness: all three solves were issued for a tol other than 1.0e-10
C15_Witness ==
    /\ Len(solves) = 3
    /\ args.tol = 2
    /\ solves[1].params.absolute_tolerance = 1
    /\ solves[3].params.relative_tolerance = 2

InvalidMethodStep == scheme.time_step_method \notin KnownMethods /\ pc # "idle"

\* C16 as stated: a step of a scheme constructed with an unknown time method
\* always fails with an assertion error raised inside the tentative-velocity
\* stage, before any sub-solve and without a result.
C16_RejectedInTentativeStage ==
    InvalidMethodStep =>
        /\ pc = "error"
        /\ exc = Raise("AssertionError", "tentative")
        /\ solves = << >>
        /\ result = NoResult

\* C16 amended: IPCS and Rotational objects exist for every time method, known
\* or not; a step of one with an unknown method always fails with an
\* assertion error before any sub-solve and without a result; the error is
\* raised inside the tentative-velocity stage when dt > 0 and mu > 0, and by
\* the precondition asserts of _step, before that stage is entered, otherwise.
C16_RejectedBeforeAnySolve ==
    /\ \A m \in Methods : IPCS(m) \in SchemeObjects /\ Rotational(m) \in SchemeObjects
    /\ (scheme.time_step_method \notin KnownMethods /\ pc = "idle") => exc = NoExc
    /\ InvalidMethodStep =>
        /\ scheme.kind \in {"IPCS", "Rotational"}
        /\ pc = "error"
        /\ exc.type = "AssertionError"
        /\ solves = << >>
        /\ result = NoResult
        /\ (args.dt > 0 /\ args.mu > 0) =>
            /\ exc.at = "tentative"
            /\ messages = << "Computing tentative velocity" >>
        /\ ~(args.dt > 0 /\ args.mu > 0) =>
            /\ exc.at = "_step"
            /\ messages = << >>

\* C16 witness: a step with valid dt and mu was rejected for its time method
C16_Witness ==
    /\ InvalidMethodStep
    /\ args.dt > 0 /\ args.mu > 0
    /\ pc = "error"
    /\ exc = Raise("AssertionError", "tentative")
    /\ solves = << >>

====
